---- MODULE Spec2Model ----
(***************************************************************************)
(* The AI conversation gateway of the Telegram bot: modules/chat.py (the   *)
(* provider call), the chat-mode and model handlers of bot.py and the      *)
(* per-user settings, as a state machine.                                  *)
(*                                                                         *)
(* bot.py calls two things modules/chat.py does not hold:                  *)
(*   - chat.reset_chat(user_id): no definition in src/. It is modelled     *)
(*     from the specification's Session Store (invalidate), together with  *)
(*     the store itself (_chat_sessions, getOrCreate).                     *)
(*   - chat.chat(messages, model, user_id): chat() is defined with the     *)
(*     two parameters (messages, model). chat_call models Python's         *)
(*     argument binding against that signature.                            *)
(*                                                                         *)
(* Around the gateway: the event loop the handlers run on (SpecLoop), the  *)
(* network alerts of modules/monitor.py (SpecMonitor), the per-user state  *)
(* of /image and /news (SpecUsers), the pagination of modules/channel.py   *)
(* (SpecPages) and the image hosts of modules/image_search.py (SpecImage). *)
(***************************************************************************)
EXTENDS Integers, Sequences, FiniteSets, TLC

\* ------------------------------------------------------------ bounds
MaxLen == 3        \* longest conversation handed directly to chat()
MaxMsgs == 3       \* chat-mode messages delivered and not yet reset, all users
MaxSessions == 3   \* sessions the session store holds at once
MaxAlerts == 4     \* network alerts of one run of monitor_loop
MaxNews == 35      \* messages of one cached news list
MaxPage == 5       \* highest page number of a page button

\* ------------------------------------------------------------ input sets
Users == {1, 2}
Roles == {"user", "assistant"}
Texts == {"hi", "more"}
UserTexts == {"hi"}
None == "None"

\* config.py
DEFAULT_MODEL == "gemini-3-flash"

AVAILABLE_MODELS ==
  << "gemini-3-flash", "gemini-3-pro-high", "gemini-3-pro-low",
     "gemini-3-pro-image", "gemini-2.5-flash", "gemini-2.5-flash-thinking",
     "claude-sonnet-4-5", "claude-sonnet-4-5-thinking",
     "claude-opus-4-5-thinking" >>

\* arguments of /model, and of a direct chat() call
ModelArgs ==
  {"gemini-3-flash", "gemini-3-pro-high", "not-a-real-model", "GEMINI-3-FLASH",
   "gemini-3"}

\* callback data model_<idx>: the buttons of /model, and indices no button has
CallbackIdx == {-10, -9, 0, 1, 9}

\* arguments of /chat
ChatArgs == {<<>>, <<"off">>, <<"OFF">>, <<"on">>}

QuickData == {"quick_weather", "quick_news", "quick_chat", "quick_model"}

\* a comparison that is sensitive to case
lower_keeps_case(s) == s

\* str.lower() on the arguments of /chat and on the words of an error message
lower(s) ==
  CASE s = "OFF" -> "off"
    [] s = "UNAVAILABLE" -> "unavailable"
    [] s = "Capacity" -> "capacity"
    [] s = "GEMINI-3-FLASH" -> "gemini-3-flash"
    [] OTHER -> s

\* ------------------------------------------------------------ modules/chat.py

\* a registry that compares without regard to case
is_valid_model_any_case(model) ==
  \E i \in DOMAIN AVAILABLE_MODELS : AVAILABLE_MODELS[i] = lower(model)

is_valid_model(model) ==
  \E i \in DOMAIN AVAILABLE_MODELS : AVAILABLE_MODELS[i] = model

Turns == [role : Roles, content : Texts]

RECURSIVE SeqsUpTo(_, _)
SeqsUpTo(S, n) ==
  IF n = 0 THEN {<<>>}
  ELSE LET shorter == SeqsUpTo(S, n - 1)
       IN shorter \cup {Append(s, x) : s \in {t \in shorter : Len(t) = n - 1}, x \in S}

Conversations == SeqsUpTo(Turns, MaxLen)

\* the role an "assistant" turn keeps when it is not remapped
_convert_history_keeps_role(messages) ==
  IF messages = <<>>
  THEN [history |-> <<>>, last_msg |-> ""]
  ELSE [history |-> [i \in 1..(Len(messages) - 1) |->
                       [role |-> messages[i].role,
                        parts |-> <<messages[i].content>>]],
        last_msg |-> messages[Len(messages)].content]

_convert_history(messages) ==
  IF messages = <<>>
  THEN [history |-> <<>>, last_msg |-> ""]
  ELSE [history |-> [i \in 1..(Len(messages) - 1) |->
                       [role |-> IF messages[i].role = "assistant"
                                 THEN "model" ELSE "user",
                        parts |-> <<messages[i].content>>]],
        last_msg |-> messages[Len(messages)].content]

\* the words of a provider error message that the code looks for, some of
\* them as the provider may capitalise them
MessageWords ==
  {"503", "unavailable", "UNAVAILABLE", "unhealthy", "capacity", "Capacity",
   "block", "safety", "timeout", "timed out", "connection"}

\* str(e) of a provider failure: the words it holds, at most two of them
ErrorMessages == {k \in SUBSET MessageWords : Cardinality(k) <= 2}

\* len(str(e)) of a provider failure
MessageLengths == {40, 150, 151, 201}

\* len(str(e)) of the TypeError of a call that does not fit def chat; the
\* texts of the RuntimeErrors chat() raises are never cut
OwnMessageLength == 63

\* a flat translation that remaps the assistant role
to_openai_flat_remapped(messages) ==
  [i \in 1..Len(messages) |->
     [role |-> IF messages[i].role = "assistant" THEN "model" ELSE "user",
      content |-> messages[i].content]]

\* toProviderFormat(conversation, OPENAI_FLAT): the ordered list of
\* {role, content} pairs of the conversation, roles not remapped
to_openai_flat(messages) ==
  [i \in 1..Len(messages) |->
     [role |-> messages[i].role, content |-> messages[i].content]]

\* What the provider does with a request: a reply text, a reply without
\* text, or a failure whose message holds the words kw and has len characters.
ProviderOutcomes ==
  {[kind |-> "text", kw |-> {}, len |-> 0], [kind |-> "empty", kw |-> {}, len |-> 0]}
    \cup {[kind |-> "error", kw |-> k, len |-> n] :
            k \in ErrorMessages, n \in MessageLengths}

\* no request reached the provider
NoOutcome == [kind |-> "none", kw |-> {}, len |-> 0]

\* error_msg.lower(), as the set of words it holds
Lowered(kw) == {lower(w) : w \in kw}

\* the result of a call of chat(): the exception it raises (error, with the
\* keywords kw of str(e)) or the kind of text it returns, and the provider
\* requests it issued
Raised(error, kw, requests, conv, converted) ==
  [error |-> error, kw |-> kw, len |-> OwnMessageLength, result |-> "none",
   requests |-> requests,
   history |-> conv.history, user_message |-> conv.last_msg,
   converted |-> converted]

\* a chat() that raises on a response without text
Returned_unless_empty(result, requests, conv) ==
  IF result = "fallback"
  THEN Raised("ValueError", {}, requests, conv, TRUE)
  ELSE [error |-> "none", kw |-> {}, len |-> 0, result |-> result,
        requests |-> requests,
        history |-> conv.history, user_message |-> conv.last_msg,
        converted |-> TRUE]

Returned(result, requests, conv) ==
  [error |-> "none", kw |-> {}, len |-> 0, result |-> result,
   requests |-> requests,
   history |-> conv.history, user_message |-> conv.last_msg,
   converted |-> TRUE]

NotConverted == [history |-> <<>>, last_msg |-> ""]

chat(messages, model, avail, outcome) ==
  IF ~avail
  THEN Raised("RuntimeError", {"cn_unavailable"}, <<>>, NotConverted, FALSE)
  ELSE
    LET use_model == IF model = None THEN DEFAULT_MODEL ELSE model
        conv == _convert_history(messages)
        request ==
          IF conv.history # <<>>
          THEN [api |-> "send_message", model |-> use_model,
                history |-> conv.history, message |-> conv.last_msg,
                timeout |-> 30]
          ELSE [api |-> "generate_content", model |-> use_model,
                history |-> <<>>, message |-> conv.last_msg,
                timeout |-> 30]
    IN CASE outcome.kind = "text" -> Returned("text", <<request>>, conv)
         [] outcome.kind = "empty" -> Returned("fallback", <<request>>, conv)
         [] OTHER ->
              IF \/ "503" \in outcome.kw
                 \/ Lowered(outcome.kw) \cap {"capacity", "unavailable"} # {}
              THEN Raised("RuntimeError", {"cn_unavailable", "cn_capacity"},
                          <<request>>, conv, TRUE)
              ELSE IF Lowered(outcome.kw) \cap {"block", "safety"} # {}
              THEN Returned("filtered", <<request>>, conv)
              ELSE [Raised("ProviderError", outcome.kw, <<request>>, conv, TRUE)
                      EXCEPT !.len = outcome.len]

\* Python binds the positional arguments args to def chat(messages, model=None)
chat_call(args, avail, outcome) ==
  IF Len(args) \notin {1, 2}
  THEN Raised("TypeError", {}, <<>>, NotConverted, FALSE)
  ELSE chat(args[1], IF Len(args) = 2 THEN args[2] ELSE None, avail, outcome)

\* ------------------------------------------------------------ state

VARIABLES
  GENAI_AVAILABLE,  \* chat.py: whether google.generativeai was imported
  user_settings,    \* bot.py: {user_id: {"model": str, "chat_mode": bool}}
  _chat_sessions,   \* the session store: the (user, model) keys that hold a handle
  conv,             \* per user, the chat-mode messages delivered since the
                    \* user's last reset, each with the model selected then
  last              \* the handler or call that ran last, and its outcome

VARIABLES
  loop,               \* the event loop thread: Idle, or the blocking call it is in
  threads,            \* the users whose chat.chat call runs in a worker thread
  _last_network_ok,   \* monitor.py: the result of the previous network check
  alerts,             \* the network alerts monitor_loop asked to send, in order
  waiting_for_image,  \* bot.py: the users /image waits for a photo of
  news_cache          \* bot.py: {user_id: cached news}, here the cached source

loopvars == <<loop, threads>>
monitorvars == <<_last_network_ok, alerts>>
photovars == <<waiting_for_image, news_cache>>

\* the state outside the conversation gateway
sysvars == <<loopvars, monitorvars, photovars>>

vars == <<GENAI_AVAILABLE, user_settings, _chat_sessions, conv, last, sysvars>>

\* the event loop thread between two callbacks
Idle == [call |-> "none", user |-> 0]

\* bot.py and monitor.py at import
InitSys ==
  /\ loop = Idle
  /\ threads = {}
  /\ _last_network_ok = TRUE
  /\ alerts = <<>>
  /\ waiting_for_image = {}
  /\ news_cache = <<>>

\* the outcome of a handler that raised nothing and called no provider
Outcome(op, user, arg) ==
  [op |-> op, user |-> user, arg |-> arg, chat_mode |-> FALSE,
   error |-> "none", kw |-> {}, reply |-> "none", result |-> "none",
   requests |-> <<>>, messages |-> <<>>, model |-> "", history |-> <<>>,
   user_message |-> "", converted |-> FALSE, dropped |-> {},
   outcome |-> NoOutcome, len |-> 0, shown |-> 0]

\* the bot after main(), with google.generativeai installed (the provider
\* call without it is part of SpecChat)
Init ==
  /\ GENAI_AVAILABLE = TRUE
  /\ InitSys
  /\ user_settings = <<>>
  /\ _chat_sessions = {}
  /\ conv = [u \in Users |-> <<>>]
  /\ last = Outcome("init", 0, "")

\* ------------------------------------------------------------ session store

\* reset_chat(user_id), the store's invalidate(userId): every key of the user
\* leaves the store; nothing happens, and nothing is raised, when there is none
reset_chat(sessions, user_id) ==
  {k \in sessions : k[1] # user_id}

\* getOrCreate(key, factory): the handle of key, made by factory when absent
getOrCreate(u, m) ==
  /\ \/ <<u, m>> \in _chat_sessions
     \/ Cardinality(_chat_sessions) < MaxSessions
  /\ _chat_sessions' = _chat_sessions \cup {<<u, m>>}
  /\ last' = Outcome("getOrCreate", u, m)
  /\ UNCHANGED <<GENAI_AVAILABLE, sysvars, user_settings, conv>>

\* ------------------------------------------------------------ bot.py

get_user_settings(settings, user_id) ==
  IF user_id \in DOMAIN settings
  THEN settings
  ELSE [u \in DOMAIN settings \cup {user_id} |->
          IF u = user_id
          THEN [model |-> DEFAULT_MODEL, chat_mode |-> FALSE]
          ELSE settings[u]]

start_command(u) ==
  /\ user_settings' = get_user_settings(user_settings, u)
  /\ last' = [Outcome("start_command", u, "") EXCEPT !.reply = "welcome"]
  /\ UNCHANGED <<GENAI_AVAILABLE, sysvars, _chat_sessions, conv>>

\* a handler that sets the chat mode and forgets chat.reset_chat(user_id)
set_chat_mode_keeps_sessions(op, u, arg, on) ==
  LET us == get_user_settings(user_settings, u)
  IN /\ user_settings' = [us EXCEPT ![u].chat_mode = on]
     /\ _chat_sessions' = _chat_sessions
     /\ conv' = [conv EXCEPT ![u] = <<>>]
     /\ last' = [Outcome(op, u, arg) EXCEPT
                   !.reply = IF on THEN "chat_on" ELSE "chat_off",
                   !.dropped = {}]
     /\ UNCHANGED <<GENAI_AVAILABLE, sysvars, sysvars>>

\* settings["chat_mode"] = on; chat.reset_chat(user_id); reply
set_chat_mode(op, u, arg, on) ==
  LET us == get_user_settings(user_settings, u)
  IN /\ user_settings' = [us EXCEPT ![u].chat_mode = on]
     /\ _chat_sessions' = reset_chat(_chat_sessions, u)
     /\ conv' = [conv EXCEPT ![u] = <<>>]
     /\ last' = [Outcome(op, u, arg) EXCEPT
                   !.reply = IF on THEN "chat_on" ELSE "chat_off",
                   !.dropped = _chat_sessions \ reset_chat(_chat_sessions, u)]
     /\ UNCHANGED <<GENAI_AVAILABLE, sysvars, sysvars>>

chat_command(u, args) ==
  IF args # <<>> /\ lower(args[1]) = "off"
  THEN set_chat_mode("chat_command", u, "off", FALSE)
  ELSE set_chat_mode("chat_command", u, "on", TRUE)

\* a chat_off button that leaves chat mode on
chat_callback_keeps_mode(u, data) ==
  set_chat_mode("chat_callback", u, data, TRUE)

chat_callback(u, data) ==
  IF data = "chat_off"
  THEN set_chat_mode("chat_callback", u, data, FALSE)
  ELSE /\ last' = Outcome("chat_callback", u, data)
       /\ UNCHANGED <<GENAI_AVAILABLE, sysvars, user_settings, _chat_sessions, conv>>

quick_callback(u, data) ==
  IF data = "quick_chat"
  THEN set_chat_mode("quick_callback", u, data, TRUE)
  ELSE IF data = "quick_model"
  THEN /\ user_settings' = get_user_settings(user_settings, u)
       /\ last' = [Outcome("quick_callback", u, data) EXCEPT !.reply = "model_menu"]
       /\ UNCHANGED <<GENAI_AVAILABLE, sysvars, _chat_sessions, conv>>
  ELSE /\ last' = [Outcome("quick_callback", u, data) EXCEPT
                     !.reply = IF data = "quick_weather" THEN "weather" ELSE "news_menu"]
       /\ UNCHANGED <<GENAI_AVAILABLE, sysvars, user_settings, _chat_sessions, conv>>

\* a model command that also leaves chat mode
model_command_leaves_chat(u, args) ==
  LET us == get_user_settings(user_settings, u)
  IN /\ IF args # <<>> /\ is_valid_model(args[1])
        THEN /\ user_settings' = [us EXCEPT ![u].model = args[1], ![u].chat_mode = FALSE]
             /\ last' = [Outcome("model_command", u, args[1]) EXCEPT !.reply = "model_switched"]
        ELSE /\ user_settings' = us
             /\ last' = [Outcome("model_command", u, "") EXCEPT !.reply = "model_menu"]
     /\ UNCHANGED <<GENAI_AVAILABLE, sysvars, _chat_sessions, conv>>

\* a model command that takes any name
model_command_accepts_any(u, args) ==
  LET us == get_user_settings(user_settings, u)
  IN /\ IF args # <<>>
        THEN /\ user_settings' = [us EXCEPT ![u].model = args[1]]
             /\ last' = [Outcome("model_command", u, args[1]) EXCEPT
                           !.reply = IF is_valid_model(args[1])
                                     THEN "model_switched" ELSE "invalid_model"]
        ELSE /\ user_settings' = us
             /\ last' = [Outcome("model_command", u, "") EXCEPT !.reply = "model_menu"]
     /\ UNCHANGED <<GENAI_AVAILABLE, sysvars, _chat_sessions, conv>>

model_command(u, args) ==
  LET us == get_user_settings(user_settings, u)
  IN /\ IF args # <<>>
        THEN IF is_valid_model(args[1])
             THEN /\ user_settings' = [us EXCEPT ![u].model = args[1]]
                  /\ last' = [Outcome("model_command", u, args[1]) EXCEPT
                                !.reply = "model_switched"]
             ELSE /\ user_settings' = us
                  /\ last' = [Outcome("model_command", u, args[1]) EXCEPT
                                !.reply = "invalid_model"]
        ELSE /\ user_settings' = us
             /\ last' = [Outcome("model_command", u, "") EXCEPT !.reply = "model_menu"]
     /\ UNCHANGED <<GENAI_AVAILABLE, sysvars, _chat_sessions, conv>>

\* list[idx] of Python: a negative idx counts from the end, and an idx
\* outside the list raises IndexError ("" here)
Subscript(list, idx) ==
  IF 0 <= idx /\ idx < Len(list) THEN list[idx + 1]
  ELSE IF idx < 0 /\ 0 <= Len(list) + idx THEN list[Len(list) + idx + 1]
  ELSE ""

\* a model button that stores whatever the subscript gives
model_callback_unchecked(u, idx) ==
  LET us == get_user_settings(user_settings, u)
      new_model == Subscript(AVAILABLE_MODELS, idx)
  IN /\ user_settings' = [us EXCEPT ![u].model = new_model]
     /\ last' = [Outcome("model_callback", u, new_model) EXCEPT
                   !.reply = "model_switched"]
     /\ UNCHANGED <<GENAI_AVAILABLE, sysvars, _chat_sessions, conv>>

model_callback(u, idx) ==
  LET us == get_user_settings(user_settings, u)
      new_model == Subscript(AVAILABLE_MODELS, idx)
  IN /\ IF idx < Len(AVAILABLE_MODELS)
        THEN IF new_model # ""
             THEN /\ user_settings' = [us EXCEPT ![u].model = new_model]
                  /\ last' = [Outcome("model_callback", u, new_model) EXCEPT
                                !.reply = "model_switched"]
             ELSE /\ user_settings' = us
                  /\ last' = [Outcome("model_callback", u, "") EXCEPT
                                !.error = "IndexError"]
        ELSE /\ user_settings' = us
             /\ last' = Outcome("model_callback", u, "")
     /\ UNCHANGED <<GENAI_AVAILABLE, sysvars, _chat_sessions, conv>>

\* the user's turns of log, as a conversation
RECURSIVE AsConversation(_)
AsConversation(log) ==
  IF log = <<>> THEN <<>>
  ELSE <<[role |-> "user", content |-> Head(log).text]>> \o AsConversation(Tail(log))

\* arguments that carry everything the user said since the reset, to any model
handle_message_args_whole_log(u, text, settings) ==
  << AsConversation(conv[u]) \o <<[role |-> "user", content |-> text]>>,
     settings.model >>

\* arguments with an empty conversation
handle_message_args_empty(u, text, settings) ==
  << <<>>, settings.model, u >>

\* the positional arguments handle_message gives chat.chat
handle_message_args(u, text, settings) ==
  << <<[role |-> "user", content |-> text]>>, settings.model, u >>

\* the except branch of handle_message: the reply for an exception whose
\* message holds the keywords kw
\* an except branch without the timeout text
error_reply_without_timeout(kw) ==
  IF kw \cap {"cn_capacity", "cn_unavailable"} # {} THEN "error_message"
  ELSE IF "503" \in kw \/ "unhealthy" \in Lowered(kw) THEN "service_unavailable"
  ELSE "generic_error"

error_reply(kw) ==
  IF kw \cap {"cn_capacity", "cn_unavailable"} # {} THEN "error_message"
  ELSE IF "503" \in kw \/ "unhealthy" \in Lowered(kw) THEN "service_unavailable"
  ELSE IF Lowered(kw) \cap {"timed out", "timeout"} # {} THEN "timeout"
  ELSE "generic_error"

Min(a, b) == IF a < b THEN a ELSE b

\* how many characters of str(e) the reply carries: error_msg[:150] in the
\* last branch, the whole error_msg in the first, none in the fixed texts
shown_length(reply, len) ==
  CASE reply = "generic_error" -> Min(len, 150)
    [] reply = "error_message" -> len
    [] OTHER -> 0

\* a caller that reports the filtered text through its error path
try_chat_filtered_as_error(args, avail, outcome) ==
  LET r == chat_call(args, avail, outcome)
      reply == IF r.error = "none" /\ r.result # "filtered"
               THEN "answer" ELSE "generic_error"
  IN [r |-> r, reply |-> reply, shown |-> shown_length(reply, r.len),
      outcome |-> IF r.requests = <<>> THEN NoOutcome ELSE outcome]

\* a caller that calls again when the call failed
try_chat_retries(args, avail, outcome) ==
  LET r == chat_call(args, avail, outcome)
      again == IF r.error = "none" THEN r
               ELSE [r EXCEPT !.requests = r.requests \o r.requests]
      reply == IF again.error = "none" THEN "answer" ELSE error_reply(again.kw)
  IN [r |-> again, reply |-> reply, shown |-> shown_length(reply, again.len),
      outcome |-> IF again.requests = <<>> THEN NoOutcome ELSE outcome]

\* the try statement of handle_message around chat.chat(*args): the result
\* of the call and the reply the user gets for it
try_chat(args, avail, outcome) ==
  LET r == chat_call(args, avail, outcome)
      reply == IF r.error = "none" THEN "answer" ELSE error_reply(r.kw)
  IN [r |-> r, reply |-> reply, shown |-> shown_length(reply, r.len),
      outcome |-> IF r.requests = <<>> THEN NoOutcome ELSE outcome]

\* the provider answers only a call that reaches it
OutcomesFor(args) ==
  IF Len(args) \in {1, 2} THEN ProviderOutcomes ELSE {NoOutcome}

TotalMsgs == LET RECURSIVE Sum(_)
                 Sum(S) == IF S = {} THEN 0
                           ELSE LET u == CHOOSE x \in S : TRUE
                                IN Len(conv[u]) + Sum(S \ {u})
             IN Sum(Users)

handle_message(u, text) ==
  LET us == get_user_settings(user_settings, u)
      settings == us[u]
  IN /\ user_settings' = us
     /\ UNCHANGED <<GENAI_AVAILABLE, sysvars, _chat_sessions>>
     /\ IF ~settings.chat_mode
        THEN /\ last' = [Outcome("handle_message", u, text) EXCEPT
                           !.model = settings.model]
             /\ UNCHANGED conv
        ELSE /\ TotalMsgs < MaxMsgs
             /\ conv' = [conv EXCEPT ![u] =
                           Append(@, [model |-> settings.model, text |-> text])]
             /\ \E outcome \in OutcomesFor(handle_message_args(u, text, settings)) :
                  LET args == handle_message_args(u, text, settings)
                      t == try_chat(args, GENAI_AVAILABLE, outcome)
                  IN last' = [Outcome("handle_message", u, text) EXCEPT
                                !.chat_mode = TRUE,
                                !.messages = args[1],
                                !.model = args[2],
                                !.error = t.r.error,
                                !.kw = t.r.kw,
                                !.len = t.r.len,
                                !.result = t.r.result,
                                !.requests = t.r.requests,
                                !.outcome = t.outcome,
                                !.reply = t.reply,
                                !.shown = t.shown]

\* a call chat(messages, model) in the try statement of handle_message, its
\* arguments drawn by InitChat
ChatCall ==
  /\ last.op = "call"
  /\ \E outcome \in OutcomesFor(<<last.messages, last.arg>>) :
       LET t == try_chat(<<last.messages, last.arg>>, GENAI_AVAILABLE, outcome)
       IN last' = [last EXCEPT
                     !.op = "chat",
                     !.model = IF last.arg = None THEN DEFAULT_MODEL ELSE last.arg,
                     !.error = t.r.error,
                     !.kw = t.r.kw,
                     !.len = t.r.len,
                     !.result = t.r.result,
                     !.requests = t.r.requests,
                     !.history = t.r.history,
                     !.user_message = t.r.user_message,
                     !.converted = t.r.converted,
                     !.outcome = t.outcome,
                     !.reply = t.reply,
                     !.shown = t.shown]
  /\ UNCHANGED <<GENAI_AVAILABLE, sysvars, user_settings, _chat_sessions, conv>>

\* test_connection(): one generate_content("hi") on the default model, and
\* the text for its result
test_connection(avail, outcome) ==
  LET request == [api |-> "generate_content", model |-> DEFAULT_MODEL,
                  history |-> <<>>, message |-> "hi", timeout |-> 15]
  IN IF ~avail
     THEN [requests |-> <<>>, reply |-> "no_library", shown |-> 0]
     ELSE IF outcome.kind # "error"
     THEN [requests |-> <<request>>, reply |-> "connected", shown |-> 0]
     ELSE IF "503" \in outcome.kw \/ "unavailable" \in Lowered(outcome.kw)
     THEN [requests |-> <<request>>, reply |-> "service_unavailable", shown |-> 0]
     ELSE IF "connection" \in Lowered(outcome.kw)
     THEN [requests |-> <<request>>, reply |-> "gateway_unreachable", shown |-> 0]
     ELSE [requests |-> <<request>>, reply |-> "api_error",
           shown |-> Min(outcome.len, 200)]

\* the flat-call client: stateless, every call supplies the whole message
\* list in the flat shape
flat_chat ==
  /\ last.op = "flat_call"
  /\ last' = [last EXCEPT
                !.op = "flat_chat",
                !.model = IF last.arg = None THEN DEFAULT_MODEL ELSE last.arg,
                !.requests = <<[api |-> "chat_completions",
                                model |-> IF last.arg = None THEN DEFAULT_MODEL
                                          ELSE last.arg,
                                messages |-> to_openai_flat(last.messages)]>>]
  /\ UNCHANGED <<GENAI_AVAILABLE, sysvars, user_settings, _chat_sessions, conv>>

\* /test: the reply is the text of test_connection()
test_command ==
  /\ last.op = "test"
  /\ \E outcome \in ProviderOutcomes :
       LET t == test_connection(GENAI_AVAILABLE, outcome)
       IN last' = [last EXCEPT
                     !.op = "test_command",
                     !.model = DEFAULT_MODEL,
                     !.requests = t.requests,
                     !.outcome = IF t.requests = <<>> THEN NoOutcome ELSE outcome,
                     !.len = outcome.len,
                     !.reply = t.reply,
                     !.shown = t.shown]
  /\ UNCHANGED <<GENAI_AVAILABLE, sysvars, user_settings, _chat_sessions, conv>>

\* ------------------------------------------------------------ the event loop

\* handle_message up to "await asyncio.to_thread(chat.chat, ...)": the call
\* goes to a worker thread and the event loop is free again
handle_message_to_thread(u) ==
  /\ loop = Idle
  /\ u \in DOMAIN user_settings
  /\ user_settings[u].chat_mode
  /\ \A t \in threads : t.user # u
  /\ threads' = threads \cup {[user |-> u, model |-> user_settings[u].model]}
  /\ last' = [Outcome("handle_message_to_thread", u, "hi") EXCEPT
                !.chat_mode = TRUE, !.reply = "thinking"]
  /\ UNCHANGED <<GENAI_AVAILABLE, user_settings, _chat_sessions, conv,
                 loop, monitorvars, photovars>>

\* the worker thread is done and handle_message goes on, on the event loop,
\* with the result or the exception of the call
handle_message_resumes(u) ==
  /\ loop = Idle
  /\ \E t \in threads :
       /\ t.user = u
       /\ threads' = threads \ {t}
       /\ LET args == handle_message_args(u, "hi", [model |-> t.model])
          IN \E outcome \in OutcomesFor(args) :
               LET r == try_chat(args, GENAI_AVAILABLE, outcome)
               IN last' = [Outcome("handle_message", u, "hi") EXCEPT
                             !.chat_mode = TRUE,
                             !.messages = args[1],
                             !.model = args[2],
                             !.error = r.r.error,
                             !.len = r.r.len,
                             !.requests = r.r.requests,
                             !.reply = r.reply,
                             !.shown = r.shown]
  /\ UNCHANGED <<GENAI_AVAILABLE, user_settings, _chat_sessions, conv,
                 loop, monitorvars, photovars>>

\* /test up to the call model.generate_content(...) inside the coroutine
\* test_connection(): the event loop thread itself waits for the provider
test_command_calls(u) ==
  /\ loop = Idle
  /\ GENAI_AVAILABLE
  /\ loop' = [call |-> "generate_content", user |-> u]
  /\ last' = [Outcome("test_command_calls", u, "") EXCEPT !.reply = "testing"]
  /\ UNCHANGED <<GENAI_AVAILABLE, user_settings, _chat_sessions, conv,
                 threads, monitorvars, photovars>>

\* the provider answered, or the timeout of 15 s passed: /test replies (for
\* the short messages of one word; the texts are those of test_command)
test_command_returns ==
  /\ loop # Idle
  /\ loop' = Idle
  /\ \E outcome \in {o \in ProviderOutcomes : o.len <= 40 /\ Cardinality(o.kw) <= 1} :
       LET t == test_connection(GENAI_AVAILABLE, outcome)
       IN last' = [Outcome("test_command", loop.user, "") EXCEPT
                     !.model = DEFAULT_MODEL,
                     !.requests = t.requests,
                     !.reply = t.reply,
                     !.shown = t.shown]
  /\ UNCHANGED <<GENAI_AVAILABLE, user_settings, _chat_sessions, conv,
                 threads, monitorvars, photovars>>

\* a callback of another handler: it runs when the event loop thread is free
Dispatched ==
  /\ loop = Idle
  /\ \/ \E u \in Users : start_command(u)
     \/ \E u \in Users, args \in ChatArgs : chat_command(u, args)

NextLoop ==
  \/ Dispatched
  \/ \E u \in Users : handle_message_to_thread(u)
  \/ \E u \in Users : handle_message_resumes(u)
  \/ \E u \in Users : test_command_calls(u)
  \/ test_command_returns

SpecLoop == Init /\ [][NextLoop]_vars

\* ------------------------------------------------------------ /image and /news

\* /image: with a replied photo the search runs at once; without one the
\* user is marked as waiting
image_command(u, replied_photo) ==
  /\ IF replied_photo
     THEN /\ UNCHANGED waiting_for_image
          /\ last' = [Outcome("image_command", u, "replied") EXCEPT
                        !.reply = "image_search"]
     ELSE /\ waiting_for_image' = waiting_for_image \cup {u}
          /\ last' = [Outcome("image_command", u, "") EXCEPT !.reply = "send_photo"]
  /\ UNCHANGED <<GENAI_AVAILABLE, user_settings, _chat_sessions, conv,
                 loopvars, monitorvars, news_cache>>

\* a photo handler that keeps the user waiting
handle_photo_keeps_waiting(u) ==
  /\ UNCHANGED waiting_for_image
  /\ last' = [Outcome("handle_photo", u, "") EXCEPT
                !.reply = IF u \in waiting_for_image THEN "image_search" ELSE "none"]
  /\ UNCHANGED <<GENAI_AVAILABLE, user_settings, _chat_sessions, conv,
                 loopvars, monitorvars, news_cache>>

\* a photo message: ignored unless its sender is waiting; the sender stops
\* waiting and the search runs
handle_photo(u) ==
  /\ IF u \notin waiting_for_image
     THEN /\ UNCHANGED waiting_for_image
          /\ last' = Outcome("handle_photo", u, "")
     ELSE /\ waiting_for_image' = waiting_for_image \ {u}
          /\ last' = [Outcome("handle_photo", u, "") EXCEPT !.reply = "image_search"]
  /\ UNCHANGED <<GENAI_AVAILABLE, user_settings, _chat_sessions, conv,
                 loopvars, monitorvars, news_cache>>

\* arguments of /news with the number of messages that come back, and
\* int(args[0]) of the arguments that are digits
NewsInputs ==
  {<< <<>>, 0 >>, << <<"search", "kw">>, 0 >>, << <<"search", "kw">>, 12 >>,
   << <<"1">>, 12 >>, << <<"30">>, 12 >>}

NewsNumber(s) == CASE s = "1" -> 1 [] s = "30" -> 30 [] OTHER -> -1

NEWS_CHANNELS == <<"zaihuapd", "tnews365">>

\* dict assignment cache[user_id] = value
Store(cache, user_id, value) ==
  [u \in DOMAIN cache \cup {user_id} |-> IF u = user_id THEN value ELSE cache[u]]

\* a /news that files what it found under one key for all users
news_command_shared_cache(u, args, n) ==
  /\ news_cache' = [v \in Users |-> [type |-> "recent", messages |-> n]]
  /\ last' = [Outcome("news_command", u, "") EXCEPT !.reply = "page"]
  /\ UNCHANGED <<GENAI_AVAILABLE, user_settings, _chat_sessions, conv,
                 loopvars, monitorvars, waiting_for_image>>

\* /news with the Telethon client started; n messages come back
news_command(u, args, n) ==
  /\ IF args # <<>> /\ args[1] = "search" /\ Len(args) > 1
     THEN IF n = 0
          THEN /\ UNCHANGED news_cache
               /\ last' = [Outcome("news_command", u, "search") EXCEPT
                             !.reply = "not_found"]
          ELSE /\ news_cache' = Store(news_cache, u, [type |-> "search", messages |-> n])
               /\ last' = [Outcome("news_command", u, "search") EXCEPT
                             !.reply = "page"]
     ELSE IF args # <<>> /\ NewsNumber(args[1]) >= 0
     THEN IF 0 <= NewsNumber(args[1]) - 1 /\ NewsNumber(args[1]) - 1 < Len(NEWS_CHANNELS)
          THEN \* channel.get_messages(..., has_title=...) against
               \* def get_messages(channel_username, limit, today_only)
               /\ UNCHANGED news_cache
               /\ last' = [Outcome("news_command", u, "channel") EXCEPT
                             !.error = "TypeError"]
          ELSE /\ news_cache' = Store(news_cache, u, [type |-> "recent", messages |-> n])
               /\ last' = [Outcome("news_command", u, "recent") EXCEPT
                             !.reply = "page"]
     ELSE /\ UNCHANGED news_cache
          /\ last' = [Outcome("news_command", u, "") EXCEPT !.reply = "news_menu"]
  /\ UNCHANGED <<GENAI_AVAILABLE, user_settings, _chat_sessions, conv,
                 loopvars, monitorvars, waiting_for_image>>

\* ------------------------------------------------------------ modules/channel.py

PAGE_SIZE == 10

\* the cached list of n messages, each message standing for itself
Messages(n) == [i \in 1..n |-> i]

\* a page count that rounds down
get_total_pages_rounds_down(messages) ==
  LET pages == Len(messages) \div PAGE_SIZE
  IN IF pages < 1 THEN 1 ELSE pages

\* max(1, (len(messages) + PAGE_SIZE - 1) // PAGE_SIZE)
get_total_pages(messages) ==
  LET pages == (Len(messages) + PAGE_SIZE - 1) \div PAGE_SIZE
  IN IF pages < 1 THEN 1 ELSE pages

\* the numbered entries of page page (page >= 1): messages[start:end],
\* enumerated from start + 1; no entry at all for an empty list
format_messages_page(messages, page, total_pages) ==
  IF messages = <<>> THEN <<>>
  ELSE LET start == (page - 1) * PAGE_SIZE
           end == start + PAGE_SIZE
           page_messages == SubSeq(messages, start + 1, Min(end, Len(messages)))
       IN [k \in 1..Len(page_messages) |->
             [number |-> start + k, message |-> page_messages[k]]]

\* the buttons of the page keyboard; none at all for a single page
_build_page_keyboard(current_page, total_pages) ==
  IF total_pages <= 1 THEN {}
  ELSE (IF current_page > 1 THEN {"previous"} ELSE {})
         \cup {"noop"}
         \cup (IF current_page < total_pages THEN {"next"} ELSE {})

\* callback data news_noop, news_ch_<idx>_today, news_page_<page>
NewsData ==
  {[kind |-> "noop", n |-> 0], [kind |-> "ch", n |-> 0], [kind |-> "ch", n |-> 2]}
    \cup {[kind |-> "page", n |-> page] : page \in 1..MaxPage}

news_callback(u, data) ==
  /\ IF data.kind = "noop"
     THEN last' = Outcome("news_callback", u, "news_noop")
     ELSE IF data.kind = "ch"
     THEN IF data.n >= Len(NEWS_CHANNELS)
          THEN last' = [Outcome("news_callback", u, "news_ch") EXCEPT
                          !.reply = "invalid_channel"]
          ELSE \* channel.get_messages(..., has_title=...), see news_command
               last' = [Outcome("news_callback", u, "news_ch") EXCEPT
                          !.error = "TypeError"]
     ELSE IF u \notin DOMAIN news_cache
     THEN last' = [Outcome("news_callback", u, "news_page") EXCEPT
                     !.reply = "expired"]
     ELSE LET messages == Messages(news_cache[u].messages)
              total_pages == get_total_pages(messages)
          IN last' = [Outcome("news_callback", u, "news_page") EXCEPT
                        !.reply = "page",
                        !.shown = data.n,
                        !.len = total_pages,
                        !.messages =
                          format_messages_page(messages, data.n, total_pages),
                        !.dropped = _build_page_keyboard(data.n, total_pages)]
  /\ UNCHANGED <<GENAI_AVAILABLE, user_settings, _chat_sessions, conv,
                 loopvars, monitorvars, photovars>>

\* the bot with a news list of up to MaxNews messages cached for user 1
InitPages ==
  /\ GENAI_AVAILABLE = TRUE
  /\ user_settings = <<>>
  /\ _chat_sessions = {}
  /\ conv = [u \in Users |-> <<>>]
  /\ last = Outcome("init", 0, "")
  /\ loop = Idle
  /\ threads = {}
  /\ _last_network_ok = TRUE
  /\ alerts = <<>>
  /\ waiting_for_image = {}
  /\ \E n \in 0..MaxNews :
       news_cache = Store(<<>>, 1, [type |-> "recent", messages |-> n])

NextPages == \E u \in Users, data \in NewsData : news_callback(u, data)

SpecPages == InitPages /\ [][NextPages]_vars

\* ------------------------------------------------------------ modules/image_search.py

\* what an image host does with an upload: a well-formed answer with status
\* 200, an answer with status 200 that lacks the URL, another status, or an
\* exception of the HTTP client
HostResponses == {"ok", "malformed", "http_error", "exception"}

\* upload_to_telegraph, upload_to_catbox, upload_to_imgbb (freeimage.host):
\* the URL of the uploaded image, or None
upload_to_telegraph(response) ==
  IF response = "ok" THEN "https://telegra.ph/file" ELSE None

upload_to_catbox(response) ==
  IF response = "ok" THEN "https://files.catbox.moe/file" ELSE None

upload_to_imgbb(response) ==
  IF response = "ok" THEN "https://iili.io/file" ELSE None

\* a search that stops after the first host
search_image_first_host_only(responses) ==
  LET first == upload_to_telegraph(responses[1])
  IN [success |-> first # None,
      result |-> IF first # None THEN first ELSE "upload_failed",
      contacted |-> <<"Telegraph">>]

\* search_image: the hosts are tried in turn while there is no URL
search_image(responses) ==
  LET first == upload_to_telegraph(responses[1])
      second == IF first = None THEN upload_to_catbox(responses[2]) ELSE first
      third == IF second = None THEN upload_to_imgbb(responses[3]) ELSE second
  IN [success |-> third # None,
      result |-> IF third # None THEN third ELSE "upload_failed",
      contacted |-> <<"Telegraph">>
                      \o (IF first = None THEN <<"Catbox">> ELSE <<>>)
                      \o (IF second = None THEN <<"FreeImage">> ELSE <<>>)]

\* process_image_search for a photo of user last.user: the hosts answer as
\* drawn by InitImage
process_image_search ==
  /\ last.op = "photo"
  /\ LET found == search_image(last.messages)
     IN last' = [last EXCEPT
                   !.op = "process_image_search",
                   !.reply = IF found.success THEN "search_links"
                             ELSE "upload_failed",
                   !.result = found.result,
                   !.requests = found.contacted]
  /\ UNCHANGED <<GENAI_AVAILABLE, user_settings, _chat_sessions, conv, sysvars>>

\* a photo of a user is about to be searched, and the three hosts are in
\* any condition
InitImage ==
  /\ GENAI_AVAILABLE = TRUE
  /\ InitSys
  /\ user_settings = <<>>
  /\ _chat_sessions = {}
  /\ conv = [u \in Users |-> <<>>]
  /\ \E u \in Users, r1 \in HostResponses, r2 \in HostResponses,
        r3 \in HostResponses :
       last = [Outcome("photo", u, "") EXCEPT !.messages = <<r1, r2, r3>>]

NextImage == process_image_search

SpecImage == InitImage /\ [][NextImage]_vars

\* ------------------------------------------------------------ modules/monitor.py

\* send_monitor_alert(message): one send_message per known user; a send that
\* raises is logged and the next user is served. The users it reached.
send_monitor_alert(recipients, failing) == recipients \ failing

\* a loop that alerts in every cycle whose check fails
monitor_cycle_level_triggered(battery, network_ok, failing) ==
  /\ Len(alerts) < MaxAlerts
  /\ alerts' = IF network_ok THEN alerts ELSE Append(alerts, "down")
  /\ _last_network_ok' = network_ok
  /\ last' = [Outcome("monitor_loop", 0, IF network_ok THEN "ok" ELSE "down") EXCEPT
                !.reply = IF network_ok THEN "none" ELSE "down"]
  /\ UNCHANGED <<GENAI_AVAILABLE, user_settings, _chat_sessions, conv,
                 loopvars, photovars>>

\* one pass of the while loop of monitor_loop on Termux: the battery check
\* (fine, low, or data the comparison raises on), then the network check with
\* the result network_ok; failing are the users send_message raises for
monitor_cycle(battery, network_ok, failing) ==
  /\ Len(alerts) < MaxAlerts
  /\ IF battery = "error"
     THEN /\ UNCHANGED monitorvars
          /\ last' = [Outcome("monitor_loop", 0, "unchecked") EXCEPT
                        !.error = "TypeError"]
     ELSE LET alert == IF ~network_ok /\ _last_network_ok THEN "down"
                       ELSE IF network_ok /\ ~_last_network_ok THEN "recovered"
                       ELSE "none"
          IN /\ alerts' = IF alert = "none" THEN alerts ELSE Append(alerts, alert)
             /\ _last_network_ok' = network_ok
             /\ last' = [Outcome("monitor_loop", 0,
                                 IF network_ok THEN "ok" ELSE "down") EXCEPT
                           !.reply = alert,
                           !.result = IF battery = "low" THEN "battery_alert"
                                      ELSE "none",
                           !.dropped =
                             IF alert = "none" /\ battery # "low" THEN {}
                             ELSE send_monitor_alert(DOMAIN user_settings, failing)]
  /\ UNCHANGED <<GENAI_AVAILABLE, user_settings, _chat_sessions, conv,
                 loopvars, photovars>>

NextMonitor ==
  \/ \E u \in Users : start_command(u)
  \/ \E battery \in {"fine", "low", "error"}, network_ok \in BOOLEAN,
        failing \in SUBSET Users : monitor_cycle(battery, network_ok, failing)

SpecMonitor == Init /\ [][NextMonitor]_vars

\* the handlers that keep state per user
NextUsers ==
  \/ \E u \in Users : start_command(u)
  \/ \E u \in Users, args \in {<<>>, <<"off">>} : chat_command(u, args)
  \/ \E u \in Users : model_command(u, <<"gemini-3-pro-high">>)
  \/ \E u \in Users, text \in UserTexts : handle_message(u, text)
  \/ \E u \in Users, replied_photo \in BOOLEAN : image_command(u, replied_photo)
  \/ \E u \in Users : handle_photo(u)
  \/ \E u \in Users, in \in NewsInputs : news_command(u, in[1], in[2])

SpecUsers == Init /\ [][NextUsers]_vars

\* ------------------------------------------------------------ specifications

Handlers ==
  \/ \E u \in Users : start_command(u)
  \/ \E u \in Users, args \in ChatArgs : chat_command(u, args)
  \/ \E u \in Users : chat_callback(u, "chat_off")
  \/ \E u \in Users, data \in QuickData : quick_callback(u, data)
  \/ \E u \in Users, args \in {<<>>} \cup {<<m>> : m \in ModelArgs} : model_command(u, args)
  \/ \E u \in Users, idx \in CallbackIdx : model_callback(u, idx)
  \/ \E u \in Users, text \in UserTexts : handle_message(u, text)

\* the bot as src/ holds it: nothing fills the session store
Next == Handlers

Spec == Init /\ [][Next]_vars

\* the bot with a session store that holds sessions
NextStore ==
  \/ Handlers
  \/ \E u \in Users, m \in {x \in ModelArgs : is_valid_model(x)} : getOrCreate(u, m)

SpecStore == Init /\ [][NextStore]_vars

\* the provider call alone: one call of chat() on every conversation of at
\* most MaxLen turns and every model argument, or one /test
InitChat ==
  /\ GENAI_AVAILABLE \in BOOLEAN
  /\ InitSys
  /\ user_settings = <<>>
  /\ _chat_sessions = {}
  /\ conv = [u \in Users |-> <<>>]
  /\ \/ \E messages \in Conversations, model \in ModelArgs \cup {None},
            op \in {"call", "flat_call"} :
          last = [Outcome(op, 0, model) EXCEPT !.messages = messages]
     \/ last = Outcome("test", 0, "")

NextChat ==
  \/ ChatCall
  \/ flat_chat
  \/ test_command

SpecChat == InitChat /\ [][NextChat]_vars

\* the conversations a chat keeps: user and assistant turns in alternation,
\* a user turn last
Dialogues ==
  {c \in Conversations :
     /\ Len(c) \in {1, 3}
     /\ \A i \in DOMAIN c :
          /\ c[i].role = (IF i % 2 = 1 THEN "user" ELSE "assistant")
          /\ c[i].content = "hi"}

InitDialogue ==
  /\ GENAI_AVAILABLE \in BOOLEAN
  /\ InitSys
  /\ user_settings = <<>>
  /\ _chat_sessions = {}
  /\ conv = [u \in Users |-> <<>>]
  /\ \/ \E messages \in Dialogues, model \in ModelArgs \cup {None},
            op \in {"call", "flat_call"} :
          last = [Outcome(op, 0, model) EXCEPT !.messages = messages]
     \/ last = Outcome("test", 0, "")

\* the provider call under the request timeout: a call that was started
\* comes back, with a reply or with a failure
SpecChatFair == InitDialogue /\ [][NextChat]_vars /\ WF_vars(NextChat)

\* ------------------------------------------------------------ claims

\* the texts, in order, of the turns of log that went to model m
RECURSIVE TextsFor(_, _)
TextsFor(log, m) ==
  IF log = <<>> THEN <<>>
  ELSE (IF Head(log).model = m THEN <<Head(log).text>> ELSE <<>>)
         \o TextsFor(Tail(log), m)

\* the texts, in order, of the user turns of a provider history
RECURSIVE UserParts(_)
UserParts(history) ==
  IF history = <<>> THEN <<>>
  ELSE (IF Head(history).role = "user" THEN Head(history).parts ELSE <<>>)
         \o UserParts(Tail(history))

\* the turns of the key of the message handled last, before that message
EarlierTurns ==
  TextsFor(SubSeq(conv[last.user], 1, Len(conv[last.user]) - 1), last.model)

Conversing == last.op = "handle_message" /\ last.chat_mode

IsStart(l) ==
  \/ l.op = "chat_command" /\ l.arg = "on"
  \/ l.op = "quick_callback" /\ l.arg = "quick_chat"

IsStop(l) ==
  \/ l.op = "chat_command" /\ l.arg = "off"
  \/ l.op = "chat_callback" /\ l.arg = "chat_off"

SessionsOf(u) == {k \in _chat_sessions : k[1] = u}

\* C1: a call of chat() with a model that is not in the configured list
\* fails with InvalidModel and issues no provider request.
C1_InvalidModelRejected ==
  (last.op = "chat" /\ GENAI_AVAILABLE /\ ~is_valid_model(last.model)) =>
     (last.error = "InvalidModel" /\ last.requests = <<>>)

\* C2: for a non-empty conversation _convert_history gives the text of the
\* final turn as the current message and the prior turns as the history, in
\* order, with the same texts, an assistant turn with role "model" and a user
\* turn with role "user"; the history of a one-turn conversation is empty.
C2_TurnBasedTranslation ==
  (last.op = "chat" /\ last.converted /\ last.messages # <<>>) =>
     LET n == Len(last.messages)
     IN /\ last.user_message = last.messages[n].content
        /\ Len(last.history) = n - 1
        /\ \A i \in 1..(n - 1) :
             /\ last.history[i].parts = <<last.messages[i].content>>
             /\ last.messages[i].role = "assistant" => last.history[i].role = "model"
             /\ last.messages[i].role = "user" => last.history[i].role = "user"
        /\ n = 1 => last.history = <<>>
        /\ \A i \in DOMAIN last.requests :
             /\ last.requests[i].history = last.history
             /\ last.requests[i].message = last.user_message

C2_Witness ==
  /\ last.op = "chat" /\ last.converted
  /\ Len(last.messages) = 3
  /\ last.messages[1].role = "user"
  /\ last.messages[2].role = "assistant"
  /\ last.messages[3].role = "user"
  /\ Len(last.requests) = 1

\* C3: a converse call for a key that already had a converse call since the
\* key's last reset goes through the session of the first call, sends the
\* new message alone, and the provider has all the earlier turns of the key.
C3_Continuity ==
  (Conversing /\ EarlierTurns # <<>>) =>
     /\ Len(last.requests) = 1
     /\ last.requests[1].api = "send_message"
     /\ last.requests[1].model = last.model
     /\ last.requests[1].message = last.arg
     /\ UserParts(last.requests[1].history) = EarlierTurns

\* C4: however many converse calls one key gets, the session factory runs
\* once for it: the store holds one handle for the key and every call of the
\* key goes through it.
C4_SingleCreation ==
  Conversing =>
     /\ Cardinality({k \in _chat_sessions : k = <<last.user, last.model>>}) = 1
     /\ Len(last.requests) = 1

C6_SwitchBackRestores ==
  (/\ Conversing
   /\ \E i, j \in 1..(Len(conv[last.user]) - 1) :
        /\ i < j
        /\ conv[last.user][i].model = last.model
        /\ conv[last.user][j].model # last.model) =>
     /\ Len(last.requests) = 1
     /\ last.requests[1].model = last.model
     /\ UserParts(last.requests[1].history) = EarlierTurns

\* C7: what a converse call of user u with model B hands to the provider
\* holds no turn of u's conversation with another model and no turn of
\* another user: it is the message being handled, for model B.
C7_HistoryIsolation ==
  Conversing =>
     /\ last.messages = <<[role |-> "user", content |-> last.arg]>>
     /\ last.model = conv[last.user][Len(conv[last.user])].model
     /\ \A i \in DOMAIN last.requests :
          /\ last.requests[i].model = last.model
          /\ Len(UserParts(last.requests[i].history)) + 1
               <= Len(TextsFor(conv[last.user], last.model))

C7_Witness ==
  /\ Conversing
  /\ \E i \in 1..(Len(conv[last.user]) - 1) : conv[last.user][i].model # last.model
  /\ \E u \in Users \ {last.user} : conv[u] # <<>>

\* C8: a start-chat action leaves the user in chat mode with no session,
\* and the first converse call after it starts a conversation with an empty
\* history on the user's selected model.
C8_StartChatFresh ==
  /\ IsStart(last) =>
       /\ user_settings[last.user].chat_mode
       /\ SessionsOf(last.user) = {}
  /\ (Conversing /\ Len(conv[last.user]) = 1) =>
       /\ Len(last.requests) = 1
       /\ last.requests[1].history = <<>>
       /\ last.requests[1].message = last.arg
       /\ last.requests[1].model = user_settings[last.user].model

\* C9: a stop-chat action leaves the user out of chat mode with none of the
\* user's sessions in the store; a plain message of a user who is not in
\* chat mode, a new user included, causes no provider call and no reply.
C9_StopChat ==
  /\ IsStop(last) =>
       /\ ~user_settings[last.user].chat_mode
       /\ SessionsOf(last.user) = {}
  /\ (last.op = "handle_message" /\ ~user_settings[last.user].chat_mode) =>
       /\ last.reply = "none"
       /\ last.requests = <<>>

C9_Witness ==
  /\ IsStop(last)
  /\ last.op = "chat_callback"
  /\ last.dropped # {}

\* C10: a model switch changes the selected model of its user and nothing
\* else: no user's chat mode changes and no session leaves the store.
C10_ModelSwitchFrame ==
  [][ last'.op \in {"model_command", "model_callback"} =>
        /\ _chat_sessions' = _chat_sessions
        /\ conv' = conv
        /\ \A u \in DOMAIN user_settings' :
             IF u \in DOMAIN user_settings
             THEN /\ user_settings'[u].chat_mode = user_settings[u].chat_mode
                  /\ u # last'.user => user_settings'[u] = user_settings[u]
             ELSE /\ u = last'.user
                  /\ ~user_settings'[u].chat_mode ]_vars

C10_Witness ==
  /\ last.op = "model_command"
  /\ last.reply = "model_switched"
  /\ user_settings[last.user].chat_mode
  /\ user_settings[last.user].model # DEFAULT_MODEL
  /\ SessionsOf(last.user) # {}

\* C11: a /model command with a name that is not in the configured list is
\* answered as invalid and leaves the user's selected model and chat mode,
\* and the settings of every other user, as they were.
C11_InvalidSwitchRejected ==
  [][ (last'.op = "model_command" /\ last'.arg # "" /\ ~is_valid_model(last'.arg)) =>
        /\ last'.reply = "invalid_model"
        /\ user_settings' = get_user_settings(user_settings, last'.user) ]_vars

C11_Witness ==
  /\ last.op = "model_command"
  /\ last.reply = "invalid_model"
  /\ ~is_valid_model(last.arg)
  /\ user_settings[last.user].chat_mode
  /\ user_settings[last.user].model # DEFAULT_MODEL

UnavailableWords == {"503", "unavailable", "unhealthy"}
CapacityWords == {"capacity"}
SafetyWords == {"block", "safety"}
TimeoutWords == {"timeout", "timed out"}
ConnectionWords == {"connection"}

\* a converse call, or any provider call, that failed at the provider
Failed == last.op = "chat" /\ last.outcome.kind = "error"
FailedAny == last.op \in {"chat", "test_command"} /\ last.outcome.kind = "error"

\* the words of the provider's message, without regard to case
Words ==
  {IF w = "UNAVAILABLE" THEN "unavailable"
   ELSE IF w = "Capacity" THEN "capacity" ELSE w : w \in last.outcome.kw}

\* C13: a converse call that failed with a message holding "503",
\* "unavailable" or "unhealthy" in any case is shown to the user as the
\* service-unavailable text (check that the proxy is running), not as the
\* capacity text.
C13_ServiceUnavailableText ==
  (Failed /\ Words \cap UnavailableWords # {}) =>
     last.reply = "service_unavailable"

\* C14: a converse call that failed with a message holding "capacity" in any
\* case and none of "503", "unavailable", "unhealthy" is shown to the user as
\* the capacity text, which suggests switching models.
C14_CapacityText ==
  (Failed /\ Words \cap CapacityWords # {} /\ Words \cap UnavailableWords = {}) =>
     /\ last.error = "RuntimeError"
     /\ "cn_capacity" \in last.kw
     /\ last.reply = "error_message"
     /\ last.shown = last.len

C14_Witness ==
  /\ Failed
  /\ last.outcome.kw = {"Capacity", "timeout"}
  /\ last.reply = "error_message"

\* C15: when the provider's message holds "block" or "safety" in any case and
\* no keyword of an earlier rule, chat() raises nothing and returns the
\* filtered text, which the caller delivers as an answer.
C15_SafetyReturnedAsText ==
  (/\ Failed
   /\ Words \cap SafetyWords # {}
   /\ Words \cap (UnavailableWords \cup CapacityWords) = {}) =>
     /\ last.error = "none"
     /\ last.result = "filtered"
     /\ last.reply = "answer"

C15_Witness ==
  /\ Failed
  /\ last.outcome.kw = {"safety", "timed out"}
  /\ last.result = "filtered"
  /\ last.reply = "answer"

\* C16: every provider request of a converse call carries an explicit
\* timeout and every call that was started ends; a failure whose message
\* holds "timeout" or "timed out" and no keyword of an earlier rule is shown
\* to the user as the timeout text.
C16_ProviderCallEnds ==
  /\ [](last.op \in {"chat", "test_command"} =>
          \A i \in DOMAIN last.requests : last.requests[i].timeout \in 1..30)
  /\ []((/\ Failed
         /\ Words \cap TimeoutWords # {}
         /\ Words \cap (UnavailableWords \cup CapacityWords \cup SafetyWords) = {}) =>
           (last.error = "ProviderError" /\ last.reply = "timeout"))
  /\ ((last.op = "call") ~> (last.op = "chat"))

C16_Witness ==
  /\ Failed
  /\ last.outcome.kw = {"timed out", "connection"}
  /\ last.requests # <<>>
  /\ last.reply = "timeout"

\* C17: a provider call, of converse or of the connectivity test, that
\* failed with a message holding "connection" in any case and no keyword of
\* an earlier rule is shown as the gateway-unreachable text.
C17_ConnectionText ==
  (/\ FailedAny
   /\ Words \cap ConnectionWords # {}
   /\ Words \cap (UnavailableWords \cup CapacityWords \cup SafetyWords
                     \cup TimeoutWords) = {}) =>
     last.reply = "gateway_unreachable"

\* C18: a provider call, of converse or of the connectivity test, that
\* failed with a message holding no keyword of any rule is shown as an
\* unknown error with at most the first 150 characters of the message.
C18_UnknownTruncated ==
  (/\ FailedAny
   /\ Words \cap (UnavailableWords \cup CapacityWords \cup SafetyWords
                     \cup TimeoutWords \cup ConnectionWords) = {}) =>
     /\ last.reply \in {"generic_error", "api_error"}
     /\ last.shown = Min(last.outcome.len, 150)

\* the rule of the taxonomy that a message with the words w falls under,
\* first match first
Classify(w) ==
  CASE w \cap UnavailableWords # {} -> "ServiceUnavailable"
    [] w \cap UnavailableWords = {} /\ w \cap CapacityWords # {} -> "CapacityExceeded"
    [] w \cap (UnavailableWords \cup CapacityWords) = {} /\ w \cap SafetyWords # {}
         -> "SafetyBlocked"
    [] w \cap (UnavailableWords \cup CapacityWords \cup SafetyWords) = {}
         /\ w \cap TimeoutWords # {} -> "Timeout"
    [] w \cap (UnavailableWords \cup CapacityWords \cup SafetyWords
                 \cup TimeoutWords) = {} /\ w \cap ConnectionWords # {} -> "Connection"
    [] OTHER -> "Unknown"

\* the rule whose outcome the user of a converse call sees
Seen ==
  CASE last.reply = "service_unavailable" -> "ServiceUnavailable"
    [] last.reply = "error_message" /\ "cn_capacity" \in last.kw -> "CapacityExceeded"
    [] last.reply = "answer" /\ last.result = "filtered" -> "SafetyBlocked"
    [] last.reply = "timeout" -> "Timeout"
    [] last.reply = "gateway_unreachable" -> "Connection"
    [] OTHER -> "Unknown"

\* the rules that have a keyword in the words w
Matching(w) ==
  {R \in {UnavailableWords, CapacityWords, SafetyWords, TimeoutWords,
           ConnectionWords} : w \cap R # {}}

\* C19: for a failed converse call whose message holds keywords of several
\* rules, in any case, the user sees the outcome of the earliest of them in
\* the order ServiceUnavailable, CapacityExceeded, SafetyBlocked, Timeout,
\* connection, Unknown.
C19_FirstMatchWins ==
  (Failed /\ Cardinality(Matching(Words)) >= 2) => Seen = Classify(Words)

\* C20: when the provider answers without text, chat() raises nothing and
\* returns the fallback text, which the caller delivers as an answer.
C20_EmptyResponseFallback ==
  (last.op = "chat" /\ last.outcome.kind = "empty") =>
     /\ last.error = "none"
     /\ last.result = "fallback"
     /\ last.reply = "answer"

C20_Witness ==
  /\ last.op = "chat"
  /\ last.outcome.kind = "empty"
  /\ Len(last.requests) = 1
  /\ last.requests[1].api = "send_message"
  /\ last.result = "fallback"

\* C21: a message handled in chat mode causes at most one provider request,
\* and a request that failed, with whatever message, is not issued again.
C21_NoAutomaticRetry ==
  /\ last.op \in {"chat", "handle_message"} => Len(last.requests) <= 1
  /\ Failed => Len(last.requests) = 1

C21_Witness ==
  /\ Failed
  /\ last.error = "ProviderError"
  /\ last.outcome.kw = {"timeout"}
  /\ Len(last.requests) = 1

\* C22: /model accepts a name exactly when it is, character for character,
\* one of the nine configured identifiers: a name in another case, a prefix
\* of an identifier and an unknown name are refused.
C22_ExactMembership ==
  last.op = "model_command" /\ last.arg # "" =>
    (last.reply = "model_switched" <=>
       last.arg \in {"gemini-3-flash", "gemini-3-pro-high", "gemini-3-pro-low",
                     "gemini-3-pro-image", "gemini-2.5-flash",
                     "gemini-2.5-flash-thinking", "claude-sonnet-4-5",
                     "claude-sonnet-4-5-thinking", "claude-opus-4-5-thinking"})

C22_Witness ==
  /\ last.op = "model_command"
  /\ last.arg \in {"GEMINI-3-FLASH", "gemini-3"}
  /\ last.reply = "invalid_model"
  /\ \E u \in DOMAIN user_settings : user_settings[u].model = "gemini-3-pro-high"

\* C23: the flat translation of a conversation has as many entries as the
\* conversation has turns, and its i-th entry has the role, user or
\* assistant, and the text of the i-th turn.
C23_FlatTranslation ==
  last.op = "flat_chat" =>
    /\ Len(last.requests) = 1
    /\ Len(last.requests[1].messages) = Len(last.messages)
    /\ \A i \in DOMAIN last.messages :
         /\ last.requests[1].messages[i].role = last.messages[i].role
         /\ last.requests[1].messages[i].role \in {"user", "assistant"}
         /\ last.requests[1].messages[i].content = last.messages[i].content

C23_Witness ==
  /\ last.op = "flat_chat"
  /\ Len(last.messages) = 3
  /\ last.messages[1].role = "user"
  /\ last.messages[2].role = "assistant"
  /\ last.requests[1].messages[2].role = "assistant"

\* user u has an AI call that waits for the provider
AiCallWaiting(u) ==
  \/ \E t \in threads : t.user = u
  \/ loop.call # "none" /\ loop.user = u

\* C24: while an AI call of a user, a converse call or a connectivity test,
\* waits for the provider, the event loop thread is free to handle the
\* messages and commands of the other users.
C24_NoBlockingCallOnDispatch ==
  \A u \in Users : AiCallWaiting(u) => loop = Idle

\* C25: the conversation handle_message passes to chat.chat is not empty, its
\* last turn has the role user and that turn is the text of the message, so
\* no empty conversation and no empty current message is handed on.
C25_ConversationEndsWithUser ==
  Conversing =>
    /\ last.messages # <<>>
    /\ last.messages[Len(last.messages)].role = "user"
    /\ last.messages[Len(last.messages)].content = last.arg
    /\ last.arg # ""

C25_Witness ==
  /\ Conversing
  /\ Len(conv[last.user]) = 2
  /\ last.messages[1].content = "hi"

\* C26: a cycle of monitor_loop that checks the network sends the down alert
\* exactly when the check fails and the previous check succeeded (the first
\* check counts as preceded by a success), and the recovery alert exactly
\* when the check succeeds and the previous one failed, also when a send of
\* the alert raises; so the alerts of a run alternate down, recovered, down,
\* ... and none is repeated.
C26_EdgeTriggeredAlerts ==
  /\ [][ last'.op = "monitor_loop" =>
           IF last'.arg = "unchecked"
           THEN alerts' = alerts /\ _last_network_ok' = _last_network_ok
           ELSE /\ _last_network_ok' = (last'.arg = "ok")
                /\ (alerts' = Append(alerts, "down")) <=>
                     (last'.arg = "down" /\ _last_network_ok)
                /\ (alerts' = Append(alerts, "recovered")) <=>
                     (last'.arg = "ok" /\ ~_last_network_ok)
                /\ (alerts' = alerts) <=>
                     ((last'.arg = "ok") <=> _last_network_ok) ]_vars
  /\ [](\A i \in DOMAIN alerts :
          alerts[i] = IF i % 2 = 1 THEN "down" ELSE "recovered")

C26_Witness ==
  /\ last.op = "monitor_loop"
  /\ alerts = <<"down", "recovered", "down">>
  /\ DOMAIN user_settings = Users
  /\ last.dropped = {1}

\* C27: a photo is processed only if its sender is waiting, and then the
\* sender stops waiting; an /image without a replied photo makes its sender
\* wait, whether or not the sender was waiting already, so several of them
\* authorise one photo; a photo of a user who is not waiting changes nothing.
C27_ImageSearchOneShot ==
  [][ /\ last'.op = "handle_photo" =>
           /\ last'.reply = "image_search" <=> last'.user \in waiting_for_image
           /\ waiting_for_image' = waiting_for_image \ {last'.user}
           /\ last'.user \notin waiting_for_image =>
                 /\ last'.reply = "none"
                 /\ user_settings' = user_settings
                 /\ news_cache' = news_cache
      /\ (last'.op = "image_command" /\ last'.arg = "") =>
           waiting_for_image' = waiting_for_image \cup {last'.user}
      /\ (last'.op = "image_command" /\ last'.arg = "replied") =>
           waiting_for_image' = waiting_for_image ]_vars

C27_Witness ==
  /\ last.op = "handle_photo"
  /\ last.reply = "image_search"
  /\ waiting_for_image = Users \ {last.user}

RECURSIVE ListedUpTo(_, _)
ListedUpTo(n, p) ==
  IF p = 0 THEN <<>>
  ELSE ListedUpTo(n, p - 1)
         \o format_messages_page(Messages(n), p, get_total_pages(Messages(n)))

\* C29: for a list of n messages get_total_pages is ceil(n / 10), and 1 for
\* n = 0; pages 1..total list every message once, in order, numbered 1..n,
\* ten to a page but for the last; the keyboard has a previous button only
\* on a page > 1 and a next button only on a page < total.
C29_PaginationPartitions ==
  \A u \in DOMAIN news_cache :
    LET n == news_cache[u].messages
        total == get_total_pages(Messages(n))
    IN /\ n = 0 => total = 1
       /\ n >= 1 => (10 * (total - 1) < n /\ n <= 10 * total)
       /\ ListedUpTo(n, total) = [i \in 1..n |-> [number |-> i, message |-> i]]
       /\ \A p \in 1..total :
            LET listed == format_messages_page(Messages(n), p, total)
                keyboard == _build_page_keyboard(p, total)
            IN /\ Len(listed) <= 10
               /\ (p < total) => Len(listed) = 10
               /\ ("previous" \in keyboard) => p > 1
               /\ ("next" \in keyboard) => p < total
               /\ (last.op = "news_callback" /\ last.reply = "page"
                     /\ last.user = u /\ last.shown = p) =>
                    (last.messages = listed /\ last.dropped = keyboard
                       /\ last.len = total)

C29_Witness ==
  /\ last.op = "news_callback"
  /\ last.reply = "page"
  /\ news_cache[last.user].messages = 25
  /\ last.shown = 3
  /\ Len(last.messages) = 5
  /\ last.messages[5].number = 25
  /\ last.dropped = {"previous", "noop"}

\* the hosts in the order of the claim, and the URL each one gives
HostOrder == <<"Telegraph", "Catbox", "FreeImage">>
HostUrl == <<"https://telegra.ph/file", "https://files.catbox.moe/file",
             "https://iili.io/file">>

\* C30: search_image contacts Telegraph, Catbox, FreeImage in this order, a
\* later host only when every earlier one gave no URL; it returns (True, url)
\* with the URL of the first host that succeeded and (False, error text)
\* only when all three failed.
C30_HostFallbackOrder ==
  last.op = "process_image_search" =>
    LET contacted == last.requests
        k == Len(contacted)
        responses == last.messages
    IN /\ k \in 1..3
       /\ contacted = SubSeq(HostOrder, 1, k)
       /\ \A i \in 1..(k - 1) : responses[i] # "ok"
       /\ k < 3 => responses[k] = "ok"
       /\ (last.reply = "search_links") <=> (\E i \in 1..3 : responses[i] = "ok")
       /\ (last.reply = "search_links") =>
            /\ responses[k] = "ok"
            /\ last.result = HostUrl[k]
       /\ (last.reply = "upload_failed") <=> (\A i \in 1..3 : responses[i] # "ok")

C30_Witness ==
  /\ last.op = "process_image_search"
  /\ last.messages = <<"exception", "malformed", "ok">>
  /\ last.requests = <<"Telegraph", "Catbox", "FreeImage">>
  /\ last.result = "https://iili.io/file"

====
